---- MODULE Spec2Model ----
(***************************************************************************)
(* Model of src/src/06-objects-tasks.js: the css selector builder.         *)
(* A string is a sequence of one-character strings.  The heap is the       *)
(* sequence of Selector instances created so far; index 0 stands for the   *)
(* cssSelectorBuilder facade object itself (a receiver that is not a       *)
(* Selector).                                                              *)
(***************************************************************************)
EXTENDS Integers, Sequences, FiniteSets, TLC

\* ---- bounds ----
MaxOps == 3
MaxChainOps == 5
MaxSide == 20
MaxFields == 2

Values == {<<>>, <<"a">>}
Combinators == {<<"+">>, <<>>}

Kinds == {"element", "id", "class", "attr", "pseudoClass", "pseudoElement"}

\* ---- Selector.quantityError / Selector.orderError ----
quantityError == "Element, id and pseudo-element should not occur more then one time inside the selector"
orderError == "Selector parts should be arranged in the following order: element, id, class, attribute, pseudo-class, pseudo-element"
ok == "ok"

\* heap:  the Selector instances, in creation order
\* made:  how each instance was created, "chain" (by an append on the facade) or "combine"
\* calls: per instance, the append calls made on it so far, with their outcome
\* last:  the most recent call, its arguments and what it returned or threw
\* steps: the number of calls made so far
VARIABLES heap, made, calls, last, steps
\* pc:   which program is run and how far it is
\* args: the width and height passed to Rectangle
\* rect: the object Rectangle returned
\* area: what rect.getArea() returned
VARIABLES pc, args, rect, area
\* obj:   the object passed to getJSON
\* shape: the prototype passed to fromJSON
\* json:  the string getJSON returned
\* back:  the object fromJSON returned
VARIABLES obj, shape, json, back
jsonVars == <<obj, shape, json, back>>
builderVars == <<heap, made, calls, last, steps>>
rectVars == <<args, rect, area>>
vars == <<heap, made, calls, last, steps, pc, args, rect, area, obj, shape, json, back>>

\* ---- Rectangle ----
Sides == (0 - MaxSide)..MaxSide

\* return { width, height, getArea() { return width * height; } }
\* getArea closes over the parameters, not over the fields of the object.
RectangleSquare(width, height) ==
  [width |-> width, height |-> width, getArea |-> [width |-> width, height |-> width]]
Rectangle(width, height) ==
  [width |-> width, height |-> height, getArea |-> [width |-> width, height |-> height]]

getAreaOf(r) == r.getArea.width * r.getArea.height

\* ---- getJSON / fromJSON ----
\* A JavaScript value of a data field: a tag, and the number or the string it holds.
Num(n) == [t |-> "number", n |-> n, s |-> <<>>]
Str(s) == [t |-> "string", n |-> 0, s |-> s]
True == [t |-> "true", n |-> 0, s |-> <<>>]
False == [t |-> "false", n |-> 0, s |-> <<>>]
Null == [t |-> "null", n |-> 0, s |-> <<>>]
NaN == [t |-> "NaN", n |-> 0, s |-> <<>>]
Undefined == [t |-> "undefined", n |-> 0, s |-> <<>>]

Data == {Num(0 - MaxSide), Num(0), Num(MaxSide * MaxSide), Str(<<>>), Str(<<"a", "\"">>),
         True, False, Null, NaN, Undefined}
FieldNames == {<<"w">>, <<"h">>, <<"r">>}
Shapes == {"Object", "Box", "Circle"}

\* An object: its prototype and its own enumerable fields, in insertion order.
Field == [name : FieldNames, val : Data]
FieldLists ==
  {fs \in UNION {[1..n -> Field] : n \in 0..MaxFields} :
     \A i, j \in DOMAIN fs : i # j => fs[i].name # fs[j].name}
NoObject == [proto |-> "Object", fields |-> <<>>]

DigitChars == <<"0", "1", "2", "3", "4", "5", "6", "7", "8", "9">>

RECURSIVE NatToString(_)
NatToString(n) ==
  IF n < 10 THEN <<DigitChars[n + 1]>>
  ELSE NatToString(n \div 10) \o <<DigitChars[(n % 10) + 1]>>

NumberToString(n) == IF n < 0 THEN <<"-">> \o NatToString(0 - n) ELSE NatToString(n)

\* JSON.stringify of a string: quoted, with the quote and the backslash escaped.
RECURSIVE Escaped(_)
Escaped(cs) ==
  IF cs = <<>> THEN <<>>
  ELSE (IF Head(cs) \in {"\"", "\\"} THEN <<"\\", Head(cs)>> ELSE <<Head(cs)>>)
       \o Escaped(Tail(cs))

Quote(cs) == <<"\"">> \o Escaped(cs) \o <<"\"">>

\* JSON.stringify of the value of a property; a number that is not finite gives null.
SerializeValue(v) ==
  CASE v.t = "number" -> NumberToString(v.n)
    [] v.t = "string" -> Quote(v.s)
    [] v.t = "true" -> <<"t", "r", "u", "e">>
    [] v.t = "false" -> <<"f", "a", "l", "s", "e">>
    [] v.t = "null" -> <<"n", "u", "l", "l">>
    [] v.t = "NaN" -> <<"n", "u", "l", "l">>

\* The members of an object; a property whose value is undefined is left out.
RECURSIVE SerializeMembers(_, _)
SerializeMembers(fs, sep) ==
  IF fs = <<>> THEN <<>>
  ELSE IF Head(fs).val.t = "undefined" THEN SerializeMembers(Tail(fs), sep)
  ELSE sep \o Quote(Head(fs).name) \o <<":">> \o SerializeValue(Head(fs).val)
       \o SerializeMembers(Tail(fs), <<",">>)

\* return JSON.stringify(obj)
getJSON(o) == <<"{">> \o SerializeMembers(o.fields, <<>>) \o <<"}">>

Drop(cs, n) == SubSeq(cs, n + 1, Len(cs))
IsDigit(c) == \E d \in 1..10 : DigitChars[d] = c
DigitValue(c) == (CHOOSE d \in 1..10 : DigitChars[d] = c) - 1

\* The characters of a string up to its closing quote; cs starts after the opening one.
RECURSIVE ReadString(_, _)
ReadString(cs, acc) ==
  IF Head(cs) = "\"" THEN [val |-> acc, rest |-> Tail(cs)]
  ELSE IF Head(cs) = "\\" THEN ReadString(Drop(cs, 2), Append(acc, cs[2]))
  ELSE ReadString(Tail(cs), Append(acc, Head(cs)))

RECURSIVE ReadDigits(_, _)
ReadDigits(cs, acc) ==
  IF cs # <<>> /\ IsDigit(Head(cs))
    THEN ReadDigits(Tail(cs), acc * 10 + DigitValue(Head(cs)))
    ELSE [val |-> acc, rest |-> cs]

ReadValue(cs) ==
  CASE Head(cs) = "\"" -> LET r == ReadString(Tail(cs), <<>>)
                          IN [val |-> Str(r.val), rest |-> r.rest]
    [] Head(cs) = "t" -> [val |-> True, rest |-> Drop(cs, 4)]
    [] Head(cs) = "f" -> [val |-> False, rest |-> Drop(cs, 5)]
    [] Head(cs) = "n" -> [val |-> Null, rest |-> Drop(cs, 4)]
    [] Head(cs) = "-" -> LET r == ReadDigits(Tail(cs), 0)
                         IN [val |-> Num(0 - r.val), rest |-> r.rest]
    [] OTHER -> LET r == ReadDigits(cs, 0)
                IN [val |-> Num(r.val), rest |-> r.rest]

\* The members of an object up to its closing brace; cs starts after the opening one.
RECURSIVE ReadMembers(_, _)
ReadMembers(cs, acc) ==
  IF Head(cs) = "}" THEN acc
  ELSE IF Head(cs) = "," THEN ReadMembers(Tail(cs), acc)
  ELSE LET name == ReadString(Tail(cs), <<>>)
           v == ReadValue(Tail(name.rest))
       IN ReadMembers(v.rest, Append(acc, [name |-> name.val, val |-> v.val]))

JSONparse(text) == ReadMembers(Tail(text), <<>>)

\* return Object.setPrototypeOf(JSON.parse(json), proto)
fromJSONPlain(proto, text) == [proto |-> "Object", fields |-> JSONparse(text)]
fromJSON(proto, text) == [proto |-> proto, fields |-> JSONparse(text)]

\* The behaviour of the shapes handed to fromJSON: Box.prototype.getArea returns
\* this.w * this.h, Circle.prototype.getRadius returns this.r.
Methods(proto) ==
  CASE proto = "Box" -> {"getArea"}
    [] proto = "Circle" -> {"getRadius"}
    [] OTHER -> {}

Get(o, name) ==
  IF \E i \in DOMAIN o.fields : o.fields[i].name = name
    THEN o.fields[CHOOSE i \in DOMAIN o.fields : o.fields[i].name = name].val
    ELSE Undefined

\* ToNumber of the values of Data; the only strings are '' and one that is no number.
ToNumber(v) ==
  CASE v.t = "number" -> v
    [] v.t = "true" -> Num(1)
    [] v.t \in {"false", "null"} -> Num(0)
    [] v.t = "string" -> IF v.s = <<>> THEN Num(0) ELSE NaN
    [] OTHER -> NaN

Multiply(a, b) ==
  IF ToNumber(a).t = "NaN" \/ ToNumber(b).t = "NaN" THEN NaN
  ELSE Num(ToNumber(a).n * ToNumber(b).n)

Invoke(o, method) ==
  CASE method \notin Methods(o.proto) -> [t |-> "TypeError", n |-> 0, s |-> <<>>]
    [] method = "getArea" -> Multiply(Get(o, <<"w">>), Get(o, <<"h">>))
    [] method = "getRadius" -> Get(o, <<"r">>)

\* A value constructed with a shape and fields, without a round trip.
Native(proto, fields) == [proto |-> proto, fields |-> fields]

NoArgs == [width |-> 0, height |-> 0]
NoRect == Rectangle(0, 0)

\* constructor(selector): this.selector = selector || ''; this.present = {}
Selector(selector) == [selector |-> selector, present |-> {}]

stringifyOf(s) == s.selector
toStringOf(s) == s.selector

Receivers == 0..Len(heap)

\* this instanceof Selector ? this : new Selector()
\* Variant: the facade keeps one builder between calls.
instantiateShared(h, t) ==
  IF t # 0 THEN [heap |-> h, idx |-> t, fresh |-> FALSE]
  ELSE IF Len(h) > 0 THEN [heap |-> h, idx |-> 1, fresh |-> FALSE]
  ELSE [heap |-> Append(h, Selector(<<>>)), idx |-> 1, fresh |-> TRUE]
\* Variant: a continuation works on a copy of the builder it is called on.
instantiateCopy(h, t) ==
  IF t # 0 THEN [heap |-> Append(h, h[t]), idx |-> Len(h) + 1, fresh |-> TRUE]
  ELSE [heap |-> Append(h, Selector(<<>>)), idx |-> Len(h) + 1, fresh |-> TRUE]
instantiate(h, t) ==
  IF t # 0 THEN [heap |-> h, idx |-> t, fresh |-> FALSE]
  ELSE [heap |-> Append(h, Selector(<<>>)), idx |-> Len(h) + 1, fresh |-> TRUE]

NoCall == [op |-> "none", this |-> 0, value |-> <<>>, outcome |-> ok, ret |-> 0,
           str |-> <<>>, left |-> 0, comb |-> <<>>, right |-> 0]

\* throw Selector.quantityError / throw Selector.orderError
Throw(kind, t, v, m, err) ==
  /\ heap' = heap
  /\ made' = made
  /\ calls' = IF m.fresh THEN calls
              ELSE [calls EXCEPT ![m.idx] = Append(@, [kind |-> kind, value |-> v, outcome |-> err])]
  /\ last' = [NoCall EXCEPT !.op = kind, !.this = t, !.value = v, !.outcome = err]

\* selector.selector = ...; selector.present.<kind> = true; return selector
\* Variant: the text is assigned but the presence flag is not set.
ReturnUnflagged(kind, t, v, m, text) ==
  /\ heap' = [m.heap EXCEPT ![m.idx] = [selector |-> text, present |-> @.present]]
  /\ made' = IF m.fresh THEN Append(made, "chain") ELSE made
  /\ calls' = LET c == [kind |-> kind, value |-> v, outcome |-> ok]
              IN IF m.fresh THEN Append(calls, <<c>>)
                 ELSE [calls EXCEPT ![m.idx] = Append(@, c)]
  /\ last' = [NoCall EXCEPT !.op = kind, !.this = t, !.value = v, !.ret = m.idx]
Return(kind, t, v, m, text) ==
  /\ heap' = [m.heap EXCEPT ![m.idx] = [selector |-> text, present |-> @.present \cup {kind}]]
  /\ made' = IF m.fresh THEN Append(made, "chain") ELSE made
  /\ calls' = LET c == [kind |-> kind, value |-> v, outcome |-> ok]
           IN IF m.fresh THEN Append(calls, <<c>>)
                 ELSE [calls EXCEPT ![m.idx] = Append(@, c)]
  /\ last' = [NoCall EXCEPT !.op = kind, !.this = t, !.value = v, !.ret = m.idx]

element(t, value) ==
  LET m == instantiate(heap, t)
      selector == m.heap[m.idx]
  IN IF "element" \in selector.present THEN Throw("element", t, value, m, quantityError)
     ELSE IF toStringOf(selector) # <<>> THEN Throw("element", t, value, m, orderError)
     ELSE Return("element", t, value, m, value)

\* Variant: the ordering test before the quantity test.
idOrderFirst(t, value) ==
  LET m == instantiate(heap, t)
      selector == m.heap[m.idx]
  IN IF "pseudoElement" \in selector.present \/ "class" \in selector.present
       THEN Throw("id", t, value, m, orderError)
     ELSE IF "id" \in selector.present THEN Throw("id", t, value, m, quantityError)
     ELSE Return("id", t, value, m, selector.selector \o <<"#">> \o value)
\* Variant: the fragment replaces the text instead of extending it.
idReplacing(t, value) ==
  LET m == instantiate(heap, t)
      selector == m.heap[m.idx]
  IN IF "id" \in selector.present THEN Throw("id", t, value, m, quantityError)
     ELSE IF "pseudoElement" \in selector.present \/ "class" \in selector.present
       THEN Throw("id", t, value, m, orderError)
     ELSE Return("id", t, value, m, <<"#">> \o value)
id(t, value) ==
  LET m == instantiate(heap, t)
      selector == m.heap[m.idx]
  IN IF "id" \in selector.present THEN Throw("id", t, value, m, quantityError)
     ELSE IF "pseudoElement" \in selector.present \/ "class" \in selector.present
       THEN Throw("id", t, value, m, orderError)
     ELSE Return("id", t, value, m, selector.selector \o <<"#">> \o value)

\* Variant: class without its ordering test.
classUnchecked(t, value) ==
  LET m == instantiate(heap, t)
      selector == m.heap[m.idx]
  IN Return("class", t, value, m, selector.selector \o <<".">> \o value)
class(t, value) ==
  LET m == instantiate(heap, t)
      selector == m.heap[m.idx]
  IN IF "attr" \in selector.present THEN Throw("class", t, value, m, orderError)
     ELSE Return("class", t, value, m, selector.selector \o <<".">> \o value)

\* Variant: attr without its ordering test.
attrUnchecked(t, value) ==
  LET m == instantiate(heap, t)
      selector == m.heap[m.idx]
  IN Return("attr", t, value, m, selector.selector \o <<"[">> \o value \o <<"]">>)
attr(t, value) ==
  LET m == instantiate(heap, t)
      selector == m.heap[m.idx]
  IN IF "pseudoClass" \in selector.present THEN Throw("attr", t, value, m, orderError)
     ELSE Return("attr", t, value, m, selector.selector \o <<"[">> \o value \o <<"]">>)

pseudoClass(t, value) ==
  LET m == instantiate(heap, t)
      selector == m.heap[m.idx]
  IN IF "pseudoElement" \in selector.present THEN Throw("pseudoClass", t, value, m, orderError)
     ELSE Return("pseudoClass", t, value, m, selector.selector \o <<":">> \o value)

\* Variant: the text is extended before the ordering test.
pseudoElementEager(t, value) ==
  LET m == instantiate(heap, t)
      selector == m.heap[m.idx]
  IN IF "pseudoElement" \in selector.present
       THEN Throw("pseudoElement", t, value, m, quantityError)
     ELSE IF "class" \in selector.present
       THEN /\ heap' = [heap EXCEPT ![m.idx].selector = @ \o <<":", ":">> \o value]
            /\ made' = made
            /\ calls' = [calls EXCEPT ![m.idx] =
                           Append(@, [kind |-> "pseudoElement", value |-> value,
                                      outcome |-> orderError])]
            /\ last' = [NoCall EXCEPT !.op = "pseudoElement", !.this = t, !.value = value,
                                      !.outcome = orderError]
     ELSE Return("pseudoElement", t, value, m, selector.selector \o <<":", ":">> \o value)
pseudoElement(t, value) ==
  LET m == instantiate(heap, t)
      selector == m.heap[m.idx]
  IN IF "pseudoElement" \in selector.present
       THEN Throw("pseudoElement", t, value, m, quantityError)
     ELSE IF "class" \in selector.present
       THEN Throw("pseudoElement", t, value, m, orderError)
     ELSE Return("pseudoElement", t, value, m, selector.selector \o <<":", ":">> \o value)

\* Variant: the combinator joined without the surrounding spaces.
combineNoSpaces(t, selector1, combinator, selector2) ==
  /\ heap' = Append(heap, Selector(toStringOf(heap[selector1]) \o combinator
                                   \o toStringOf(heap[selector2])))
  /\ made' = Append(made, "combine")
  /\ calls' = Append(calls, <<>>)
  /\ last' = [NoCall EXCEPT !.op = "combine", !.ret = Len(heap) + 1,
                            !.left = selector1, !.comb = combinator, !.right = selector2]
\* Variant: the left operand is extended in place and returned.
combineInPlace(t, selector1, combinator, selector2) ==
  /\ heap' = [heap EXCEPT ![selector1].selector =
                 @ \o <<" ">> \o combinator \o <<" ">> \o toStringOf(heap[selector2])]
  /\ UNCHANGED <<made, calls>>
  /\ last' = [NoCall EXCEPT !.op = "combine", !.ret = selector1,
                            !.left = selector1, !.comb = combinator, !.right = selector2]
\* Variant: an empty combinator is rejected.
combineValidating(t, selector1, combinator, selector2) ==
  /\ IF combinator = <<>>
       THEN /\ UNCHANGED <<heap, made, calls>>
            /\ last' = [NoCall EXCEPT !.op = "combine", !.outcome = "invalid combinator",
                                      !.left = selector1, !.comb = combinator, !.right = selector2]
       ELSE /\ heap' = Append(heap, Selector(toStringOf(heap[selector1]) \o <<" ">> \o combinator
                                             \o <<" ">> \o toStringOf(heap[selector2])))
            /\ made' = Append(made, "combine")
            /\ calls' = Append(calls, <<>>)
            /\ last' = [NoCall EXCEPT !.op = "combine", !.ret = Len(heap) + 1,
                                      !.left = selector1, !.comb = combinator, !.right = selector2]
\* return new Selector(`${selector1} ${combinator} ${selector2}`); `this` is not used
combine(t, selector1, combinator, selector2) ==
  /\ heap' = Append(heap, Selector(toStringOf(heap[selector1]) \o <<" ">> \o combinator
                                   \o <<" ">> \o toStringOf(heap[selector2])))
  /\ made' = Append(made, "combine")
  /\ calls' = Append(calls, <<>>)
  /\ last' = [NoCall EXCEPT !.op = "combine", !.ret = Len(heap) + 1,
                            !.left = selector1, !.comb = combinator, !.right = selector2]

\* Variant: reading the text resets the builder.
stringifyConsuming(t) ==
  /\ heap' = [heap EXCEPT ![t] = Selector(<<>>)]
  /\ UNCHANGED <<made, calls>>
  /\ last' = [NoCall EXCEPT !.op = "stringify", !.this = t, !.str = stringifyOf(heap[t])]
stringify(t) ==
  /\ UNCHANGED <<heap, made, calls>>
  /\ last' = [NoCall EXCEPT !.op = "stringify", !.this = t, !.str = stringifyOf(heap[t])]

toString(t) ==
  /\ UNCHANGED <<heap, made, calls>>
  /\ last' = [NoCall EXCEPT !.op = "toString", !.this = t, !.str = toStringOf(heap[t])]

Init ==
  /\ heap = <<>>
  /\ made = <<>>
  /\ calls = <<>>
  /\ last = NoCall
  /\ steps = 0
  /\ pc = "builder"
  /\ args = NoArgs
  /\ rect = NoRect
  /\ area = 0
  /\ obj = NoObject /\ shape = "Object" /\ json = <<>> /\ back = NoObject

\* One call of the program, counted against the bound on the length of a run.
Bounded(max, A) ==
  /\ steps < max
  /\ steps' = steps + 1
  /\ A
  /\ UNCHANGED <<pc, rectVars, jsonVars>>

Next ==
  \/ \E t \in Receivers, v \in Values : Bounded(MaxOps, element(t, v))
  \/ \E t \in Receivers, v \in Values : Bounded(MaxOps, id(t, v))
  \/ \E t \in Receivers, v \in Values : Bounded(MaxOps, class(t, v))
  \/ \E t \in Receivers, v \in Values : Bounded(MaxOps, attr(t, v))
  \/ \E t \in Receivers, v \in Values : Bounded(MaxOps, pseudoClass(t, v))
  \/ \E t \in Receivers, v \in Values : Bounded(MaxOps, pseudoElement(t, v))
  \/ \E t \in Receivers, l \in 1..Len(heap), r \in 1..Len(heap), c \in Combinators :
       Bounded(MaxOps, combine(t, l, c, r))
  \/ \E t \in 1..Len(heap) : Bounded(MaxOps, stringify(t))
  \/ \E t \in 1..Len(heap) : Bounded(MaxOps, toString(t))

Spec == Init /\ [][Next]_vars

\* One chain: started on the facade, then continued on the builder it returned.
ChainReceivers == IF heap = <<>> THEN {0} ELSE {1}

NextChain ==
  \/ \E t \in ChainReceivers, v \in Values : Bounded(MaxChainOps, element(t, v))
  \/ \E t \in ChainReceivers, v \in Values : Bounded(MaxChainOps, id(t, v))
  \/ \E t \in ChainReceivers, v \in Values : Bounded(MaxChainOps, class(t, v))
  \/ \E t \in ChainReceivers, v \in Values : Bounded(MaxChainOps, attr(t, v))
  \/ \E t \in ChainReceivers, v \in Values : Bounded(MaxChainOps, pseudoClass(t, v))
  \/ \E t \in ChainReceivers, v \in Values : Bounded(MaxChainOps, pseudoElement(t, v))

SpecChain == Init /\ [][NextChain]_vars

\* ---- const r = new Rectangle(w, h); r.getArea() ----
InitRect ==
  /\ heap = <<>> /\ made = <<>> /\ calls = <<>> /\ last = NoCall /\ steps = 0
  /\ pc = "rect:start"
  /\ args \in [width : Sides, height : Sides]
  /\ rect = NoRect
  /\ area = 0
  /\ obj = NoObject /\ shape = "Object" /\ json = <<>> /\ back = NoObject

callRectangle ==
  /\ pc = "rect:start"
  /\ rect' = Rectangle(args.width, args.height)
  /\ pc' = "rect:built"
  /\ UNCHANGED <<builderVars, jsonVars, args, area>>

callGetArea ==
  /\ pc = "rect:built"
  /\ area' = getAreaOf(rect)
  /\ pc' = "rect:done"
  /\ UNCHANGED <<builderVars, jsonVars, args, rect>>

NextRect ==
  \/ callRectangle
  \/ callGetArea

SpecRect == InitRect /\ [][NextRect]_vars

\* ---- fromJSON(proto, getJSON(obj)) ----
InitJSON ==
  /\ heap = <<>> /\ made = <<>> /\ calls = <<>> /\ last = NoCall /\ steps = 0
  /\ args = NoArgs /\ rect = NoRect /\ area = 0
  /\ pc = "json:start"
  /\ obj \in [proto : Shapes, fields : FieldLists]
  /\ shape \in Shapes
  /\ json = <<>>
  /\ back = NoObject

callGetJSON ==
  /\ pc = "json:start"
  /\ json' = getJSON(obj)
  /\ pc' = "json:serialized"
  /\ UNCHANGED <<builderVars, rectVars, obj, shape, back>>

callFromJSON ==
  /\ pc = "json:serialized"
  /\ back' = fromJSON(shape, json)
  /\ pc' = "json:parsed"
  /\ UNCHANGED <<builderVars, rectVars, obj, shape, json>>

NextJSON ==
  \/ callGetJSON
  \/ callFromJSON

SpecJSON == InitJSON /\ [][NextJSON]_vars

TypeOK ==
  /\ steps \in Nat
  /\ Len(heap) <= steps
  /\ Len(made) = Len(heap)
  /\ Len(calls) = Len(heap)
  /\ \A o \in 1..Len(heap) : heap[o].present \subseteq Kinds
\* ---- vocabulary of the claims ----
Unique == {"element", "id", "pseudoElement"}
Appends == {o \in 1..Len(heap) : made[o] = "chain"}
Composites == {o \in 1..Len(heap) : made[o] = "combine"}

Rank(kind) ==
  CASE kind = "element" -> 1
    [] kind = "id" -> 2
    [] kind = "class" -> 3
    [] kind = "attr" -> 4
    [] kind = "pseudoClass" -> 5
    [] kind = "pseudoElement" -> 6

Formatted(kind, v) ==
  CASE kind = "element" -> v
    [] kind = "id" -> <<"#">> \o v
    [] kind = "class" -> <<".">> \o v
    [] kind = "attr" -> <<"[">> \o v \o <<"]">>
    [] kind = "pseudoClass" -> <<":">> \o v
    [] kind = "pseudoElement" -> <<":", ":">> \o v

\* Concatenation, in call order, of the formatted fragments of the calls that succeeded.
RECURSIVE Rendered(_)
Rendered(cs) ==
  IF cs = <<>> THEN <<>>
  ELSE (IF Head(cs).outcome = ok THEN Formatted(Head(cs).kind, Head(cs).value) ELSE <<>>)
       \o Rendered(Tail(cs))

\* The calls made so far on receiver t; the facade starts every call on a fresh builder.
History(t) == IF t = 0 THEN <<>> ELSE calls[t]
Appended(h, kind) == \E i \in DOMAIN h : h[i].kind = kind /\ h[i].outcome = ok

Canonical(h) ==
  \A i, j \in DOMAIN h :
    i < j => /\ Rank(h[i].kind) <= Rank(h[j].kind)
             /\ h[i].kind = h[j].kind => h[i].kind \notin Unique

\* C1: once a fragment of a later kind has been appended to a chain, every later
\* attempt to append a fragment of an earlier kind fails, so the appended kinds are
\* non-decreasing in canonical order.
C1_AppendedKindsNonDecreasing ==
  \A o \in Appends : \A i, j \in DOMAIN calls[o] :
    (i < j /\ calls[o][i].outcome = ok /\ Rank(calls[o][j].kind) < Rank(calls[o][i].kind))
      => calls[o][j].outcome # ok

\* C2: on a fresh chain whose calls follow the canonical pattern, every call succeeds
\* and stringify is the concatenation of the formatted fragments in call order.
C2_CanonicalChainSucceeds ==
  \A o \in Appends :
    Canonical(calls[o]) =>
      /\ \A i \in DOMAIN calls[o] : calls[o][i].outcome = ok
      /\ stringifyOf(heap[o]) = Rendered(calls[o])

\* C3: a second element, id or pseudoElement on a builder that already took one fails
\* with the quantity error, whatever happened in between and even when the ordering
\* precondition is violated too.
C3_DuplicateRaisesQuantityError ==
  \A o \in 1..Len(heap) : \A i, j \in DOMAIN calls[o] :
    (i < j /\ calls[o][i].kind \in Unique /\ calls[o][i].kind = calls[o][j].kind
           /\ calls[o][i].outcome = ok)
      => calls[o][j].outcome = quantityError

C3_Witness ==
  \E o \in 1..Len(heap) : \E i, m, j \in DOMAIN calls[o] :
    /\ i < m /\ m < j
    /\ calls[o][i].kind = "id" /\ calls[o][i].outcome = ok
    /\ calls[o][m].kind = "class" /\ calls[o][m].outcome = ok
    /\ calls[o][j].kind = "id" /\ calls[o][j].outcome = quantityError

\* The ordering precondition of the table, violated by the builder of receiver t.
OrderViolated(kind, t) ==
  CASE kind = "element" -> t # 0 /\ stringifyOf(heap[t]) # <<>>
    [] kind = "id" -> Appended(History(t), "class") \/ Appended(History(t), "pseudoElement")
    [] kind = "class" -> Appended(History(t), "attr")
    [] kind = "attr" -> Appended(History(t), "pseudoClass")
    [] kind = "pseudoClass" -> Appended(History(t), "pseudoElement")
    [] kind = "pseudoElement" -> Appended(History(t), "class")

QuantityViolated(kind, t) == kind \in Unique /\ Appended(History(t), kind)

\* C4 as stated: a call on a builder that violates the call's ordering precondition
\* raises the order error.
C4_OrderViolationRaisesOrderError ==
  [][(last'.op \in Kinds /\ OrderViolated(last'.op, last'.this))
       => last'.outcome = orderError]_vars

\* C4 amended: a call on a builder that violates the call's ordering precondition
\* fails; it raises the quantity error when the builder already holds a fragment of
\* the call's own kind (element, id, pseudoElement), and the order error otherwise.
C4_OrderViolationFails ==
  [][(last'.op \in Kinds /\ OrderViolated(last'.op, last'.this))
       => last'.outcome = IF QuantityViolated(last'.op, last'.this)
                            THEN quantityError ELSE orderError]_vars

C4_Witness ==
  /\ last.op = "id" /\ last.this # 0 /\ last.outcome = orderError
  /\ Appended(History(last.this), "class")
  /\ ~Appended(History(last.this), "id")

\* The row of the table for a call of this kind on a builder with history h.
RowSatisfied(kind, h) ==
  CASE kind = "element" -> \A k \in Kinds : ~Appended(h, k)
    [] kind = "id" -> ~Appended(h, "id") /\ ~Appended(h, "class") /\ ~Appended(h, "pseudoElement")
    [] kind = "class" -> ~Appended(h, "attr")
    [] kind = "attr" -> ~Appended(h, "pseudoClass")
    [] kind = "pseudoClass" -> ~Appended(h, "pseudoElement")
    [] kind = "pseudoElement" -> ~Appended(h, "pseudoElement") /\ ~Appended(h, "class")

C6_CombineConcatenates ==
  [][last'.op = "combine"
       => /\ last'.outcome = ok
          /\ last'.ret = Len(heap) + 1
          /\ Len(heap') = Len(heap) + 1
          /\ stringifyOf(heap'[last'.ret])
               = stringifyOf(heap[last'.left]) \o <<" ">> \o last'.comb \o <<" ">>
                 \o stringifyOf(heap[last'.right])]_vars

C6_Witness ==
  /\ last.op = "combine"
  /\ last.left \in Composites
  /\ last.right \in Appends
  /\ last.ret \in Composites

\* C7: no append on the result of combine succeeds, so the text of a composite never
\* changes after it is created.
C7_CompositeIsTerminal ==
  \A o \in Composites : \A i \in DOMAIN calls[o] : calls[o][i].outcome # ok

\* C8: an append called on the facade starts from a fresh empty builder and succeeds,
\* and an append never changes a builder other than its receiver's.
C8_ChainsIndependent ==
  [][last'.op \in Kinds
       => /\ last'.this = 0 =>
               /\ last'.outcome = ok
               /\ last'.ret = Len(heap) + 1
               /\ Len(heap') = Len(heap) + 1
               /\ heap'[last'.ret] = [selector |-> Formatted(last'.op, last'.value),
                                      present |-> {last'.op}]
          /\ last'.this # 0 => Len(heap') = Len(heap)
          /\ \A o \in 1..Len(heap) : o # last'.this => heap'[o] = heap[o]]_vars

C8_Witness ==
  /\ last.op = "element" /\ last.this = 0 /\ last.outcome = ok /\ last.ret = 2
  /\ Appended(calls[1], "element")
  /\ made[1] = "chain"

\* C9: stringify and string conversion return the accumulated text verbatim, leave the
\* text and presence flags of every builder unchanged, and return the same value when
\* called again.
C9_StringifyIsPureRead ==
  [][last'.op \in {"stringify", "toString"}
       => /\ last'.outcome = ok
          /\ last'.str = heap[last'.this].selector
          /\ last'.this \in Appends => last'.str = Rendered(calls[last'.this])
          /\ heap' = heap
          /\ (last.op \in {"stringify", "toString"} /\ last.this = last'.this)
               => last'.str = last.str]_vars

C9_Witness ==
  /\ last.op = "toString" /\ last.str # <<>>
  /\ steps = 3 /\ Len(heap) = 1 /\ Len(calls[1]) = 1

\* C10: a failure is the quantity error or the order error, the two differ, and only
\* the six append operations fail: combine, stringify and toString never do.
C10_TwoFaultKinds ==
  /\ quantityError # orderError
  /\ last.outcome \in {ok, quantityError, orderError}
  /\ last.op \notin Kinds => last.outcome = ok
  /\ \A o \in 1..Len(heap) : \A i \in DOMAIN calls[o] :
       calls[o][i].outcome \in {ok, quantityError, orderError}

C10_Witness ==
  /\ last.op = "combine" /\ last.comb = <<>> /\ last.outcome = ok
  /\ \E o \in 1..Len(heap) : \E i \in DOMAIN calls[o] : calls[o][i].outcome = orderError
\* C12: Rectangle(width, height) returns a value whose width field is width, whose
\* height field is height and whose getArea() returns width * height, the product of
\* the two exposed fields.
C12_RectangleArea ==
  /\ pc \in {"rect:built", "rect:done"} => rect.width = args.width /\ rect.height = args.height
  /\ pc = "rect:done" => area = args.width * args.height /\ area = rect.width * rect.height

C12_Witness ==
  /\ pc = "rect:done"
  /\ args.width = 10 /\ args.height = 20 /\ area = 200
FieldSet(o) == {o.fields[i] : i \in DOMAIN o.fields}
Representable(o) == \A i \in DOMAIN o.fields : o.fields[i].val.t \notin {"undefined", "NaN"}

RoundTripped ==
  /\ back.proto = shape
  /\ FieldSet(back) = FieldSet(obj)
  /\ \A m \in Methods(shape) : Invoke(back, m) = Invoke(Native(shape, obj.fields), m)

\* C11 as stated: for every value of plain data fields and every shape,
\* fromJSON(shape, getJSON(value)) has exactly the value's own fields with equal
\* contents, and each method of the shape gives the same result on it as on a value
\* constructed with that shape and those fields.
C11_RoundTrip == pc = "json:parsed" => RoundTripped

\* C11 amended: the same, for every value whose fields hold what JSON can represent:
\* finite numbers, strings, booleans or null, and neither undefined nor NaN.
C11_RoundTripRepresentable == (pc = "json:parsed" /\ Representable(obj)) => RoundTripped

C11_Witness ==
  /\ pc = "json:parsed" /\ Representable(obj) /\ shape = "Box" /\ obj.proto = "Object"
  /\ Get(obj, <<"w">>) = Num(0 - MaxSide)
  /\ Get(obj, <<"h">>) = Str(<<"a", "\"">>)
  /\ Invoke(back, "getArea") = NaN
\* C13: the text of a builder of a chain is the concatenation, in call order, of the
\* formatted fragments of exactly the calls that succeeded; failed calls add nothing
\* and no call replaces or reorders earlier text.
C13_TextIsRenderedSuccesses ==
  \A o \in Appends : stringifyOf(heap[o]) = Rendered(calls[o])

C13_Witness ==
  \E o \in Appends :
    /\ Len(calls[o]) = 4
    /\ calls[o][1].outcome = ok /\ calls[o][1].value # <<>>
    /\ calls[o][2].outcome # ok /\ calls[o][2].value # <<>>
    /\ calls[o][3].outcome = ok
    /\ calls[o][4].outcome = ok /\ calls[o][4].kind = "pseudoElement"

\* C14: an append that raises the quantity error or the order error leaves every
\* builder, the one it was called on included, exactly as it was: same text, same
\* presence flags.
C14_FailureLeavesBuilderUnchanged ==
  [][(last'.op \in Kinds /\ last'.outcome # ok)
       => /\ heap' = heap
          /\ made' = made
          /\ last'.ret = 0]_vars

C14_Witness ==
  /\ last.op = "pseudoElement" /\ last.outcome = orderError /\ last.this = 1
  /\ Len(calls[1]) = 4
  /\ calls[1][3].outcome = quantityError
  /\ stringifyOf(heap[1]) = Formatted(calls[1][1].kind, calls[1][1].value)
                             \o Formatted(calls[1][2].kind, calls[1][2].value)

\* C15: combine changes no existing selector, its operands and its receiver included,
\* and an append made afterwards on another selector does not change the text of a
\* composite already produced.
C15_CombineIndependent ==
  [][/\ last'.op = "combine" =>
          /\ Len(heap') = Len(heap) + 1
          /\ \A o \in 1..Len(heap) : heap'[o] = heap[o]
     /\ last'.op \in Kinds =>
          \A o \in Composites :
            o # last'.this => stringifyOf(heap'[o]) = stringifyOf(heap[o])]_vars

C15_Witness ==
  /\ made = <<"chain", "combine">>
  /\ last.op = "id" /\ last.this = 1 /\ last.outcome = ok
  /\ stringifyOf(heap[1]) = <<"a", "#", "a">>
  /\ stringifyOf(heap[2]) = <<"a", " ", "+", " ", "a">>

\* C16: a successful append called on a builder returns that very builder, changed in
\* place: its text extended by the fragment and the flag of the kind set; so a second
\* id on a saved builder that already took an id fails with the quantity error.
C16_ContinuationMutatesInPlace ==
  [][(last'.op \in Kinds /\ last'.this # 0)
       => /\ last'.outcome = ok =>
               /\ last'.ret = last'.this
               /\ Len(heap') = Len(heap)
               /\ stringifyOf(heap'[last'.this])
                    = stringifyOf(heap[last'.this]) \o Formatted(last'.op, last'.value)
               /\ heap'[last'.this].present = heap[last'.this].present \cup {last'.op}
          /\ (last'.op \in Unique /\ Appended(calls[last'.this], last'.op))
               => last'.outcome = quantityError]_vars

C16_Witness ==
  /\ Len(heap) = 1 /\ Len(calls[1]) = 3
  /\ calls[1][1].kind = "element" /\ calls[1][1].outcome = ok
  /\ calls[1][2].kind = "id" /\ calls[1][2].outcome = ok /\ calls[1][2].value = <<"a">>
  /\ calls[1][3].kind = "id" /\ calls[1][3].outcome = quantityError
  /\ calls[1][3].value = <<>>
  /\ stringifyOf(heap[1]) = calls[1][1].value \o <<"#", "a">>

\* C17: on a builder of a chain the presence flag of a kind is set if and only if an
\* append of that kind has succeeded on it, and a flag once set is never cleared.
C17_FlagsTrackSuccesses ==
  [][/\ \A o \in 1..Len(heap') :
          made'[o] = "chain" =>
            heap'[o].present = {k \in Kinds : Appended(calls'[o], k)}
     /\ \A o \in 1..Len(heap) : heap[o].present \subseteq heap'[o].present]_vars

C17_Witness ==
  /\ Len(heap) = 1 /\ made[1] = "chain"
  /\ heap[1].present = {"id", "attr", "pseudoClass"}
  /\ \E i \in DOMAIN calls[1] : calls[1][i].kind = "class" /\ calls[1][i].outcome = orderError
====
